---- MODULE Spec2Model ----
(***************************************************************************)
(* Model of twitterbot.py: the sitemap loader, the Selection Loop          *)
(* (Camera construction + validity filter), image capture with bounded     *)
(* retry, image validation, publishing and the main loop.                  *)
(*                                                                         *)
(* Python strings are sequences of one-character strings, so that          *)
(* substring tests and replacements are computed as the code computes      *)
(* them.  Optional values: None is << >>, a present value v is << v >>.    *)
(***************************************************************************)
EXTENDS Integers, Sequences, FiniteSets, TLC

VARIABLES
    pc,                 \* position of the single control thread
    ended_by,           \* "none" while running, else the exception that
                        \* left the call stack, or "return" (main returned)
    RETRIES,            \* settings.RETRIES, fixed for the run
    available_cameras,  \* main: Optional list returned by load_cameras
    attempt,            \* loop variable of the retry loop that is running
    camera,             \* Optional Camera: the last one constructed
    image_file_path,    \* Optional path <<id, timestamp>> of this iteration
    disk,               \* set of paths that exist in images/
    image,              \* what the bytes written by this capture decode to
    existed_before,     \* whether image_file_path existed when _save_image began
    requests_made,      \* GETs issued by the running/last _save_image call
    writes,             \* writes to image_file_path by that call
    got200,             \* whether one of those GETs answered 200
    saved_successfully, \* result of _save_image: "none","True","False","raised"
    validated,          \* result of save_and_validate_image: "none","True","False"
    publishes,          \* post_to_twitter calls made for the accepted camera
    tweeted,            \* whether update_status_with_media went through
    tweet_posted_successfully, \* result of post_to_twitter
    flag,               \* Optional result of assemble_flag_emoji
    tweet_status,       \* Optional text built by create_tweet_text
    filter_result       \* result of a direct _url_is_valid call

vars == <<pc, ended_by, RETRIES, available_cameras, attempt, camera,
          image_file_path, disk, image, existed_before, requests_made, writes,
          got200, saved_successfully, validated, publishes, tweeted,
          tweet_posted_successfully, flag, tweet_status, filter_result>>

(***************************************************************************)
(* Bounds                                                                  *)
(***************************************************************************)
MaxRetries == 3
MaxPool == 2
MaxTime == 1
MaxFrags == 3
MaxCode == 2

(***************************************************************************)
(* Python values                                                           *)
(***************************************************************************)
None == << >>
Some(v) == << v >>
IsNone(o) == o = << >>
Val(o) == o[1]

\* x in s  for strings (substring test)
Contains(s, sub) ==
    \E i \in 0..(Len(s) - Len(sub)) : SubSeq(s, i + 1, i + Len(sub)) = sub

\* s.replace(old, new): leftmost, non-overlapping occurrences (old non-empty)
RECURSIVE Replace(_, _, _)
Replace(s, old, new) ==
    IF Len(s) < Len(old) THEN s
    ELSE IF SubSeq(s, 1, Len(old)) = old
         THEN new \o Replace(SubSeq(s, Len(old) + 1, Len(s)), old, new)
         ELSE <<s[1]>> \o Replace(Tail(s), old, new)

\* s.find(sub): 0-based index of the leftmost occurrence, -1 when there is none
Find(s, sub) ==
    LET at == {i \in 0..(Len(s) - Len(sub)) : SubSeq(s, i + 1, i + Len(sub)) = sub}
    IN  IF at = {} THEN -1 ELSE CHOOSE i \in at : \A j \in at : i <= j

\* s[a:b] with Python's treatment of negative and out-of-range indices
SliceIndex(i, n) ==
    IF i < 0 THEN (IF i + n < 0 THEN 0 ELSE i + n)
    ELSE (IF i > n THEN n ELSE i)

Slice(s, a, b) ==
    LET lo == SliceIndex(a, Len(s))
        hi == SliceIndex(b, Len(s))
    IN  IF lo >= hi THEN << >> ELSE SubSeq(s, lo + 1, hi)

\* s.replace(ch, '') for a one-character ch
Remove(s, ch) == SelectSeq(s, LAMBDA c : c # ch)

Whitespace == {" ", "\n", "\t"}

\* s.strip()
RECURSIVE Strip(_)
Strip(s) ==
    IF s = << >> THEN s
    ELSE IF Head(s) \in Whitespace THEN Strip(Tail(s))
    ELSE IF s[Len(s)] \in Whitespace THEN Strip(SubSeq(s, 1, Len(s) - 1))
    ELSE s

RECURSIVE Concat(_)
Concat(ss) == IF ss = << >> THEN << >> ELSE Head(ss) \o Concat(Tail(ss))

SeqsUpTo(S, n) == UNION {[1..k -> S] : k \in 0..n}

(***************************************************************************)
(* String literals of the source                                           *)
(***************************************************************************)
NO_JPG == <<"/","s","t","a","t","i","c","/","n","o",".","j","p","g">>
STREAM_MARK == <<"?","s","t","r","e","a","m">>
JPG_MARK == <<".","j","p","g">>
COUNTER == <<"?","C","O","U","N","T","E","R">>
Digits == {"0","1","2","3","4","5","6","7","8","9"}
\* labels of the camera-details block (lines 83-86)
L_CITY_SP == <<"C","i","t","y",":"," ">>
L_CITY == <<"C","i","t","y",":">>
L_LATITUDE == <<"L","a","t","i","t","u","d","e",":">>
L_REGION == <<"R","e","g","i","o","n",":">>
L_COUNTRY == <<"C","o","u","n","t","r","y",":">>
L_COUNTRY_CODE == <<"C","o","u","n","t","r","y"," ","c","o","d","e",":">>
\* literals of create_tweet_text (lines 187-207)
DASH == <<"-">>
UNKNOWN == <<"U","n","k","n","o","w","n">>
UNITED_STATES == <<"U","n","i","t","e","d"," ","S","t","a","t","e","s">>
CANADA == <<"C","a","n","a","d","a">>
COMMA_SP == <<","," ">>
UNKNOWN_UNITED_STATES_SP == <<"U","n","k","n","o","w","n",","," ","U","n","i","t","e","d"," ","S","t","a","t","e","s"," ">>
UNKNOWN_UNKNOWN == <<"U","n","k","n","o","w","n",","," ","U","n","k","n","o","w","n">>
UNKNOWN_LOCATION == <<"U","n","k","n","o","w","n"," ","L","o","c","a","t","i","o","n">>
PROVINCE_OF == <<","," ","P","r","o","v","i","n","c","e"," ","O","f">>
REPUBLIC_OF == <<","," ","R","e","p","u","b","l","i","c"," ","O","f">>
ISLAMIC_REPUBLIC == <<","," ","I","s","l","a","m","i","c"," ","R","e","p","u","b","l","i","c">>
N_FEDERATION == <<"n"," ","F","e","d","e","r","a","t","i","o","n">>
IAN_STATE_OF == <<"i","a","n",","," ","S","t","a","t","e"," ","O","f">>

(***************************************************************************)
(* Inputs                                                                  *)
(***************************************************************************)
\* fragments from which stream URLs are assembled
Frags == { <<"/","s","t","a","t","i","c","/","n","o">>, JPG_MARK, STREAM_MARK,
           COUNTER, <<"a">> }
FilterUrls == { Concat(fs) : fs \in SeqsUpTo(Frags, MaxFrags) }

\* src attributes of the first <img> of a camera page
ImgSrcs == { << >>,
             NO_JPG,
             NO_JPG \o COUNTER,
             <<"a">> \o JPG_MARK,
             <<"a">> \o JPG_MARK \o COUNTER,
             <<"a">> \o JPG_MARK \o STREAM_MARK,
             <<"a",".","p","n","g">> }

\* camera links of the sitemap
URLS == { <<"v","/","1">>, <<"v","/","2","?","p","=","3">> }
Sitemaps == SeqsUpTo(URLS, MaxPool)

Timestamps == 0..MaxTime

\* text_content() of one <div class="camera-details">: the fields the page
\* shows (f[i] absent: the page does not show field i), each a label on a
\* tab-indented line followed by its value on the next line
DetailLabels == <<L_COUNTRY, L_COUNTRY_CODE, L_REGION, L_CITY_SP, L_LATITUDE>>
DetailsBlock(f) ==
    Concat([i \in 1..5 |->
              IF IsNone(f[i]) THEN << >>
              ELSE <<"\n", "\t">> \o DetailLabels[i] \o <<"\n">> \o Val(f[i])])
      \o <<"\n">>

DETAILS_US ==
    DetailsBlock(<<Some(UNITED_STATES), Some(<<"U","S">>), Some(<<"W","a","s","h","i","n","g","t","o","n">>),
                   Some(<<"S","e","a","t","t","l","e">>), Some(<<"1">>)>>)
\* outcome of requests.get on a camera page: a transport error, or a body:
\* empty, only whitespace ("blank"), or a document whose first <img>, if any,
\* has the given src and whose camera-details divs have the given texts
\* (none, but for one page that shows a full details block)
FULL_PAGE_SRC == <<"a">> \o JPG_MARK \o COUNTER
Pages == [bytes : {"empty", "blank"}, img : {None}, details : {<< >>}]
           \cup [bytes : {"html"},
                  img : {None} \cup {Some(s) : s \in ImgSrcs \ {FULL_PAGE_SRC}},
                  details : {<< >>}]
           \cup [bytes : {"html"}, img : {Some(FULL_PAGE_SRC)},
                  details : {<<DETAILS_US>>}]
PageFetches == {None} \cup {Some(p) : p \in Pages}

\* outcome of requests.get(SITEMAP_URL): a transport error, a non-200 answer,
\* or a 200 whose body is malformed XML (None) or lists the given <loc> texts
SitemapFetches ==
    { [status |-> "neterr", body |-> None], [status |-> "non200", body |-> None] }
      \cup { [status |-> "200", body |-> b] :
                b \in {None} \cup {Some(s) : s \in Sitemaps} }

\* what a downloaded image decodes to
ImageKinds == {"unreadable", "solid", "varied"}
\* outcome of one GET of the stream URL followed, on a 200, by open + write
ImageFetches ==
    { [status |-> st, kind |-> "none", io |-> "none"] : st \in {"neterr", "non200"} }
      \cup { [status |-> "200", kind |-> k, io |-> w] :
                k \in ImageKinds, w \in {"ok", "open_fails", "write_fails"} }

\* outcome of the three API calls of post_to_twitter
PostOutcomes == {"ok", "TweepError_update", "TweepError_lookup"}

(***************************************************************************)
(* class Camera                                                            *)
(***************************************************************************)
_get_camera_id(url) == SelectSeq(url, LAMBDA ch : ch \in Digits)

_get_camera_page(fetch) == fetch

\* truth value of a bytes/str Optional: None and the empty value are falsy
TruthyBytes(page_content) ==
    ~IsNone(page_content) /\ Val(page_content).bytes # "empty"
TruthyStr(o) == ~IsNone(o) /\ Val(o) # << >>

_find_camera_url(page) ==
    IF IsNone(page.img) THEN None
    ELSE Some(Replace(Val(page.img), COUNTER, << >>))

\* lines 71-77: the texts of the camera-details divs, each with its newlines
\* and tabs removed and stripped, joined ("" when the page has no such div)
_get_camera_details(page) ==
    Concat([i \in 1..Len(page.details) |->
              Strip(Remove(Remove(page.details[i], "\n"), "\t"))])

\* lines 79-88: each field is the slice between the end of its label and the
\* start of the next label, with find's -1 used as it comes
_parse_camera_details(details) ==
    [ city         |-> Slice(details, Find(details, L_CITY_SP) + Len(L_CITY_SP),
                             Find(details, L_LATITUDE)),
      region       |-> Slice(details, Find(details, L_REGION) + Len(L_REGION),
                             Find(details, L_CITY)),
      country      |-> Slice(details, Find(details, L_COUNTRY) + Len(L_COUNTRY),
                             Find(details, L_COUNTRY_CODE)),
      country_code |-> Slice(details,
                             Find(details, L_COUNTRY_CODE) + Len(L_COUNTRY_CODE),
                             Find(details, L_REGION)) ]

\* line 39: html.fromstring raises ParserError ("Document is empty") on a
\* non-empty body that holds no element
FromstringRaises(page_content) ==
    TruthyBytes(page_content) /\ Val(page_content).bytes = "blank"

Camera_info_needs_details(url, fetch) ==
    LET page_content == _get_camera_page(fetch)
        has_tree == TruthyBytes(page_content)
        details == IF has_tree THEN Some(_get_camera_details(Val(page_content)))
                               ELSE None
    IN  [ url          |-> url,
          id           |-> _get_camera_id(url),
          page_content |-> page_content,
          stream_url   |-> IF has_tree THEN _find_camera_url(Val(page_content))
                                       ELSE None,
          details      |-> details,
          info         |-> IF TruthyStr(details)
                           THEN Some(_parse_camera_details(Val(details)))
                           ELSE None ]

\* the object __init__ leaves when it returns (lines 35-43)
Camera(url, fetch) ==
    LET page_content == _get_camera_page(fetch)
        has_tree == TruthyBytes(page_content)
        details == IF has_tree THEN Some(_get_camera_details(Val(page_content)))
                               ELSE None
    IN  [ url          |-> url,
          id           |-> _get_camera_id(url),
          page_content |-> page_content,
          stream_url   |-> IF has_tree THEN _find_camera_url(Val(page_content))
                                       ELSE None,
          details      |-> details,
          info         |-> IF ~IsNone(details)
                           THEN Some(_parse_camera_details(Val(details)))
                           ELSE None ]

_url_is_valid_ignoring_stream_marker(self) ==
    IF IsNone(self.stream_url) THEN "TypeError"
    ELSE IF /\ Val(self.stream_url) # NO_JPG
            /\ Contains(Val(self.stream_url), JPG_MARK)
         THEN "True" ELSE "False"

\* all([...]) builds the whole list first, so  "?stream" not in None  raises
_url_is_valid(self) ==
    IF IsNone(self.stream_url) THEN "TypeError"
    ELSE IF /\ Val(self.stream_url) # NO_JPG
            /\ ~Contains(Val(self.stream_url), STREAM_MARK)
            /\ Contains(Val(self.stream_url), JPG_MARK)
         THEN "True" ELSE "False"

_image_is_solid_color_only_std(img) == img = "solid"

\* cv2.imread gives None for an unreadable file; else np.std(image) == 0
_image_is_solid_color(img) ==
    IF img = "unreadable" THEN TRUE
    ELSE img = "solid"

(***************************************************************************)
(* get_random_valid_camera: the test of line 176, with its short-circuit   *)
(***************************************************************************)
Verdict_without_filter(c) ==
    IF ~TruthyBytes(c.page_content) THEN "rejected"
    ELSE IF ~TruthyStr(c.stream_url) THEN "rejected"
    ELSE "accepted"

Verdict_without_stream_test(c) ==
    IF ~TruthyBytes(c.page_content) THEN "rejected"
    ELSE CASE _url_is_valid(c) = "True" -> "accepted"
           [] _url_is_valid(c) = "False" -> "rejected"
           [] OTHER -> "TypeError"

Verdict(c) ==
    IF ~TruthyBytes(c.page_content) THEN "rejected"
    ELSE IF ~TruthyStr(c.stream_url) THEN "rejected"
    ELSE CASE _url_is_valid(c) = "True" -> "accepted"
           [] _url_is_valid(c) = "False" -> "rejected"
           [] OTHER -> "TypeError"

\* Camera(url) for every URL and every page fetch on which __init__ returns
Constructed ==
    [u \in URLS, f \in {g \in PageFetches : ~FromstringRaises(g)} |-> Camera(u, f)]

Cameras == { Camera(u, f) : u \in URLS,
                          f \in {g \in PageFetches : ~FromstringRaises(g)} }
AcceptedCameras == { c \in Cameras : Verdict(c) = "accepted" }
Paths == { <<c.id, t>> : c \in Cameras, t \in Timestamps }

(***************************************************************************)
(* main and the functions it calls                                         *)
(***************************************************************************)
\* the per-iteration variables, as they are when no iteration has got that far
IterationReset ==
    /\ image_file_path' = None
    /\ image' = "none"
    /\ existed_before' = FALSE
    /\ requests_made' = 0
    /\ writes' = 0
    /\ got200' = FALSE
    /\ saved_successfully' = "none"
    /\ validated' = "none"
    /\ publishes' = 0
    /\ tweeted' = FALSE
    /\ tweet_posted_successfully' = "none"
    /\ flag' = None
    /\ tweet_status' = None

IterationUnchanged ==
    UNCHANGED <<image_file_path, image, existed_before, requests_made, writes,
                got200, saved_successfully, validated, publishes, tweeted,
                tweet_posted_successfully, flag, tweet_status>>

Init ==
    /\ pc = "main"
    /\ ended_by = "none"
    /\ RETRIES \in 0..MaxRetries
    /\ available_cameras = None
    /\ attempt = 0
    /\ camera = None
    /\ image_file_path = None
    /\ disk = {}
    /\ image = "none"
    /\ existed_before = FALSE
    /\ requests_made = 0
    /\ writes = 0
    /\ got200 = FALSE
    /\ saved_successfully = "none"
    /\ validated = "none"
    /\ publishes = 0
    /\ tweeted = FALSE
    /\ tweet_posted_successfully = "none"
    /\ flag = None
    /\ tweet_status = None
    /\ filter_result = "none"

\* main, lines 267-273: os.makedirs, then authenticate_twitter (no I/O)
MakeDirs ==
    /\ pc = "main"
    /\ \E ok \in BOOLEAN :
         IF ok THEN pc' = "load" /\ ended_by' = ended_by
               ELSE pc' = "exited" /\ ended_by' = "return"
    /\ UNCHANGED <<RETRIES, available_cameras, attempt, camera, disk, filter_result>>
    /\ IterationUnchanged

\* load_cameras: what ends the call after a non-200 answer to attempt number n
LoadAfterNon200(n, retries) == IF n < retries THEN "retry" ELSE "FetchCamerasError"

\* load_cameras: one pass of the for loop (or its exit without any pass),
\* called from main line 274
LoadCameras ==
    /\ pc = "load"
    /\ IF attempt >= RETRIES
       THEN \* range(1, retries + 1) is exhausted: the function falls off its end
            /\ available_cameras' = None
            /\ attempt' = 0
            /\ pc' = "loop"
            /\ ended_by' = ended_by
       ELSE \E r \in SitemapFetches :
            CASE r.status = "neterr" ->
                   \* requests.get raises; nothing catches it
                   /\ attempt' = attempt + 1
                   /\ pc' = "exited"
                   /\ ended_by' = "ConnectionError"
                   /\ UNCHANGED available_cameras
              [] r.status = "200" /\ IsNone(r.body) ->
                   \* etree.fromstring raises on a malformed body
                   /\ attempt' = attempt + 1
                   /\ pc' = "exited"
                   /\ ended_by' = "XMLSyntaxError"
                   /\ UNCHANGED available_cameras
              [] r.status = "200" /\ ~IsNone(r.body) ->
                   /\ available_cameras' = Some(Val(r.body))
                   /\ attempt' = 0
                   /\ pc' = "loop"
                   /\ ended_by' = ended_by
              [] OTHER ->
                   /\ attempt' = attempt + 1
                   /\ UNCHANGED available_cameras
                   /\ IF LoadAfterNon200(attempt + 1, RETRIES) = "retry"
                      THEN pc' = pc /\ ended_by' = ended_by
                      ELSE pc' = "exited" /\ ended_by' = "FetchCamerasError"
    /\ UNCHANGED <<RETRIES, camera, disk, filter_result>>
    /\ IterationUnchanged

\* main line 276: the head of the while loop; what the previous pass left in
\* camera, image_file_path and the results of its calls is dead from here on
MainLoopEnters_reloading == "load"

\* the first statement of the loop body (line 277); load_cameras is called
\* before the loop (line 274)
MainLoopEnters == "sampling"

MainLoop ==
    /\ pc = "loop"
    /\ pc' = MainLoopEnters
    /\ camera' = None
    /\ IterationReset
    /\ UNCHANGED <<ended_by, RETRIES, available_cameras, attempt, disk, filter_result>>

\* get_random_valid_camera: one pass of its while loop (lines 174-181),
\* entered from main line 277
GetRandomValidCamera ==
    /\ pc = "sampling"
    /\ IF IsNone(available_cameras)
       THEN \* random.choice(None)
            /\ pc' = "exited" /\ ended_by' = "TypeError"
            /\ UNCHANGED camera
       ELSE IF Val(available_cameras) = << >>
       THEN \* random.choice([])
            /\ pc' = "exited" /\ ended_by' = "IndexError"
            /\ UNCHANGED camera
       ELSE \E i \in 1..Len(Val(available_cameras)), f \in PageFetches :
            IF FromstringRaises(_get_camera_page(f))
            THEN \* Camera.__init__ raises; no Camera is bound, the frame is gone
                 /\ camera' = None
                 /\ pc' = "exited" /\ ended_by' = "ParserError"
            ELSE
            LET c == Constructed[Val(available_cameras)[i], f] IN
            /\ camera' = Some(c)
            /\ CASE Verdict(c) = "accepted" -> pc' = "accepted" /\ ended_by' = ended_by
                 [] Verdict(c) = "rejected" -> pc' = "sampling" /\ ended_by' = ended_by
                 [] OTHER -> pc' = "exited" /\ ended_by' = "TypeError"
    /\ IterationUnchanged
    /\ UNCHANGED <<RETRIES, available_cameras, attempt, disk, filter_result>>

\* main line 278, then save_and_validate_image line 131 entering _save_image
SaveBegin ==
    /\ pc = "accepted"
    /\ \E t \in Timestamps :
         /\ image_file_path' = Some(<<Val(camera).id, t>>)
         /\ existed_before' = (<<Val(camera).id, t>> \in disk)
    /\ attempt' = 0
    /\ requests_made' = 0
    /\ writes' = 0
    /\ got200' = FALSE
    /\ IF RETRIES <= 0
       THEN pc' = "save_returned" /\ saved_successfully' = "False"
       ELSE pc' = "capture" /\ saved_successfully' = "none"
    /\ UNCHANGED <<ended_by, RETRIES, available_cameras, camera, disk, image,
                   validated, publishes, tweeted, tweet_posted_successfully,
                   flag, tweet_status, filter_result>>

\* _save_image: what follows an attempt number n that did not get a 200
SaveAfterFailure_gives_up(n, retries) == "False"

SaveAfterFailure(n, retries) == IF n < retries THEN "retry" ELSE "False"

\* _save_image: one pass of the for loop (lines 92-108)
SaveAttempt ==
    /\ pc = "capture"
    /\ attempt < RETRIES
    /\ attempt' = attempt + 1
    /\ requests_made' = requests_made + 1
    /\ \E r \in ImageFetches :
         CASE r.status = "200" /\ r.io = "ok" ->
                /\ got200' = TRUE
                /\ disk' = disk \cup {Val(image_file_path)}
                /\ image' = r.kind
                /\ writes' = writes + 1
                /\ saved_successfully' = "True"
                /\ pc' = "save_returned"
                /\ ended_by' = ended_by
           [] r.status = "200" /\ r.io = "open_fails" ->
                \* open() raises OSError; the except clause does not catch it
                /\ got200' = TRUE
                /\ UNCHANGED <<disk, image, writes>>
                /\ saved_successfully' = "raised"
                /\ pc' = "exited"
                /\ ended_by' = "OSError"
           [] r.status = "200" /\ r.io = "write_fails" ->
                \* open() created or truncated the file, f.write raises OSError
                /\ got200' = TRUE
                /\ disk' = disk \cup {Val(image_file_path)}
                /\ image' = "partial"
                /\ UNCHANGED writes
                /\ saved_successfully' = "raised"
                /\ pc' = "exited"
                /\ ended_by' = "OSError"
           [] OTHER ->
                \* transport error (lines 100-107) or non-200 (loop goes on, line 108)
                /\ UNCHANGED <<got200, disk, image, writes, ended_by>>
                /\ IF SaveAfterFailure(attempt + 1, RETRIES) = "retry"
                   THEN pc' = pc /\ saved_successfully' = "none"
                   ELSE pc' = "save_returned" /\ saved_successfully' = "False"
    /\ UNCHANGED <<RETRIES, available_cameras, camera, image_file_path,
                   existed_before, validated, publishes, tweeted,
                   tweet_posted_successfully, flag, tweet_status, filter_result>>

\* main lines 280-281: where the loop goes with the result of
\* save_and_validate_image
MainAfterCapture_always_tweets(ok) == "tweet"

MainAfterCapture(ok) == IF ok THEN "tweet" ELSE "loop"

\* save_and_validate_image lines 134-141, then main lines 280-281
SaveAndValidate ==
    /\ pc = "save_returned"
    /\ IF saved_successfully = "True"
       THEN IF ~_image_is_solid_color(image)
            THEN /\ validated' = "True"
                 /\ UNCHANGED <<disk, image>>
            ELSE /\ disk' = disk \ {Val(image_file_path)}
                 /\ validated' = "False"
                 /\ UNCHANGED image
       ELSE /\ validated' = "False"
            /\ UNCHANGED <<disk, image>>
    /\ pc' = MainAfterCapture(validated' = "True")
    /\ attempt' = 0
    /\ UNCHANGED <<ended_by, RETRIES, available_cameras, camera, image_file_path,
                   existed_before, requests_made, writes, got200,
                   saved_successfully, publishes, tweeted,
                   tweet_posted_successfully, flag, tweet_status, filter_result>>

\* assemble_flag_emoji: the table of lines 212-239, each regional-indicator
\* glyph written as one element RI_x
symbols ==
    "A" :> "RI_A" @@ "B" :> "RI_B" @@ "C" :> "RI_C" @@ "D" :> "RI_D" @@
    "E" :> "RI_E" @@ "F" :> "RI_F" @@ "G" :> "RI_G" @@ "H" :> "RI_H" @@
    "I" :> "RI_I" @@ "J" :> "RI_J" @@ "K" :> "RI_K" @@ "L" :> "RI_L" @@
    "M" :> "RI_M" @@ "N" :> "RI_N" @@ "O" :> "RI_O" @@ "P" :> "RI_P" @@
    "Q" :> "RI_Q" @@ "R" :> "RI_R" @@ "S" :> "RI_S" @@ "T" :> "RI_T" @@
    "U" :> "RI_U" @@ "V" :> "RI_V" @@ "W" :> "RI_W" @@ "X" :> "RI_X" @@
    "Y" :> "RI_Y" @@ "Z" :> "RI_Z"

\* symbols.get(char, char)
SymbolsGet(char) == IF char \in DOMAIN symbols THEN symbols[char] ELSE char

assemble_flag_emoji_dropping_others(country_code) ==
    LET known == SelectSeq(country_code, LAMBDA ch : ch \in DOMAIN symbols)
    IN  [i \in 1..Len(known) |-> symbols[known[i]]]

\* line 240
assemble_flag_emoji(country_code) ==
    [i \in 1..Len(country_code) |-> SymbolsGet(country_code[i])]

\* create_tweet_text lines 186-193
TweetCity(camera_info) ==
    IF camera_info.city # DASH THEN camera_info.city ELSE UNKNOWN
TweetRegion(camera_info) ==
    IF camera_info.region # DASH THEN camera_info.region ELSE UNKNOWN
TweetCountry(camera_info) ==
    IF camera_info.country # DASH
    THEN Replace(Replace(Replace(Replace(Replace(camera_info.country,
             PROVINCE_OF, << >>), REPUBLIC_OF, << >>), ISLAMIC_REPUBLIC, << >>),
             N_FEDERATION, << >>), IAN_STATE_OF, <<"e">>)
    ELSE UNKNOWN

create_tweet_text_without_canada_rule(camera_info, flag_) ==
    LET city == TweetCity(camera_info)
        region == TweetRegion(camera_info)
        country == TweetCountry(camera_info)
        location == IF country = UNITED_STATES THEN city \o COMMA_SP \o region
                    ELSE city \o COMMA_SP \o country
    IN  IF city = UNKNOWN /\ region = UNKNOWN /\ country = UNITED_STATES
        THEN UNKNOWN_UNITED_STATES_SP \o flag_
        ELSE IF location = UNKNOWN_UNKNOWN THEN UNKNOWN_LOCATION
        ELSE location \o <<" ">> \o flag_

create_tweet_text_without_us_rule(camera_info, flag_) ==
    LET city == TweetCity(camera_info)
        region == TweetRegion(camera_info)
        country == TweetCountry(camera_info)
        location == IF country = UNITED_STATES THEN city \o COMMA_SP \o region
                    ELSE IF country = CANADA
                    THEN city \o COMMA_SP \o region \o COMMA_SP \o country
                    ELSE city \o COMMA_SP \o country
    IN  IF location = UNKNOWN_UNKNOWN THEN UNKNOWN_LOCATION
        ELSE location \o <<" ">> \o flag_

\* create_tweet_text lines 184-207
create_tweet_text(camera_info, flag_) ==
    LET city == TweetCity(camera_info)
        region == TweetRegion(camera_info)
        country == TweetCountry(camera_info)
        location == IF country = UNITED_STATES THEN city \o COMMA_SP \o region
                    ELSE IF country = CANADA
                    THEN city \o COMMA_SP \o region \o COMMA_SP \o country
                    ELSE city \o COMMA_SP \o country
    IN  IF city = UNKNOWN /\ region = UNKNOWN /\ country = UNITED_STATES
        THEN UNKNOWN_UNITED_STATES_SP \o flag_
        ELSE IF location = UNKNOWN_UNKNOWN THEN UNKNOWN_LOCATION
        ELSE location \o <<" ">> \o flag_

\* main lines 283-287 with post_to_twitter (lines 248-259); camera.info
\* being None makes the subscript of line 284 raise TypeError
PostToTwitter ==
    /\ pc = "tweet"
    /\ IF IsNone(Val(camera).info)
       THEN /\ pc' = "exited" /\ ended_by' = "TypeError"
            /\ UNCHANGED <<flag, tweet_status, tweeted, tweet_posted_successfully,
                           publishes>>
       ELSE /\ flag' = Some(assemble_flag_emoji(Val(Val(camera).info).country_code))
            /\ tweet_status' = Some(create_tweet_text(Val(Val(camera).info),
                                                      Val(flag')))
            /\ \E o \in PostOutcomes :
                 /\ tweeted' = (o # "TweepError_update")
                 /\ tweet_posted_successfully' = IF o = "ok" THEN "True" ELSE "False"
            /\ publishes' = publishes + 1
            /\ pc' = "posted"
            /\ ended_by' = ended_by
    /\ UNCHANGED <<RETRIES, available_cameras, attempt, camera,
                   image_file_path, disk, image, existed_before, requests_made,
                   writes, got200, saved_successfully, validated, filter_result>>

\* main lines 289-291: where the loop goes with the result of post_to_twitter
MainAfterPost_always_sleeps(ok) == "sleeping"

MainAfterPost(ok) == IF ok THEN "sleeping" ELSE "loop"

PostReturned ==
    /\ pc = "posted"
    /\ pc' = MainAfterPost(tweet_posted_successfully = "True")
    /\ UNCHANGED <<ended_by, RETRIES, available_cameras, attempt, camera, disk,
                   filter_result>>
    /\ IterationUnchanged

\* main line 291: time.sleep(60 * 60) returns
Sleep ==
    /\ pc = "sleeping"
    /\ pc' = "loop"
    /\ UNCHANGED <<ended_by, RETRIES, available_cameras, attempt, camera, disk,
                   filter_result>>
    /\ IterationUnchanged

Next ==
    \/ MakeDirs
    \/ LoadCameras
    \/ MainLoop
    \/ GetRandomValidCamera
    \/ SaveBegin
    \/ SaveAttempt
    \/ SaveAndValidate
    \/ PostToTwitter
    \/ PostReturned
    \/ Sleep

Spec == Init /\ [][Next]_vars

(***************************************************************************)
(* _save_image called on its own, for every retries value: an accepted     *)
(* camera, any content of images/, then the call and nothing else.         *)
(***************************************************************************)
InitSave ==
    /\ pc = "accepted"
    /\ ended_by = "none"
    /\ RETRIES \in 0..MaxRetries
    /\ available_cameras = None
    /\ attempt = 0
    /\ camera \in {Some(c) : c \in AcceptedCameras}
    /\ image_file_path = None
    /\ disk \in SUBSET Paths
    /\ image = "none"
    /\ existed_before = FALSE
    /\ requests_made = 0
    /\ writes = 0
    /\ got200 = FALSE
    /\ saved_successfully = "none"
    /\ validated = "none"
    /\ publishes = 0
    /\ tweeted = FALSE
    /\ tweet_posted_successfully = "none"
    /\ flag = None
    /\ tweet_status = None
    /\ filter_result = "none"

NextSave ==
    \/ SaveBegin
    \/ SaveAttempt

SpecSave == InitSave /\ [][NextSave]_vars

(***************************************************************************)
(* _url_is_valid called on its own on a constructed Camera, for every      *)
(* stream URL the constructor can leave in it (absent included).           *)
(***************************************************************************)
FilterPages == [bytes : {"html"}, img : {None} \cup {Some(s) : s \in FilterUrls},
                details : {<< >>}]

InitFilter ==
    /\ pc = "filter"
    /\ ended_by = "none"
    /\ RETRIES = 0
    /\ available_cameras = None
    /\ attempt = 0
    /\ camera \in {Some(Camera(u, Some(p))) : u \in URLS, p \in FilterPages}
    /\ image_file_path = None
    /\ disk = {}
    /\ image = "none"
    /\ existed_before = FALSE
    /\ requests_made = 0
    /\ writes = 0
    /\ got200 = FALSE
    /\ saved_successfully = "none"
    /\ validated = "none"
    /\ publishes = 0
    /\ tweeted = FALSE
    /\ tweet_posted_successfully = "none"
    /\ flag = None
    /\ tweet_status = None
    /\ filter_result = "none"

\* camera._url_is_valid() (lines 63-69)
CallUrlIsValid ==
    /\ pc = "filter"
    /\ filter_result' = _url_is_valid(Val(camera))
    /\ IF filter_result' = "TypeError"
       THEN pc' = "exited" /\ ended_by' = "TypeError"
       ELSE pc' = "filter_returned" /\ ended_by' = ended_by
    /\ UNCHANGED <<RETRIES, available_cameras, attempt, camera, disk>>
    /\ IterationUnchanged

NextFilter == CallUrlIsValid

SpecFilter == InitFilter /\ [][NextFilter]_vars

(***************************************************************************)
(* Properties                                                              *)
(***************************************************************************)
\* the three documented conditions of the Validity Filter, by prefix scan
IsPrefix(p, s) == Len(p) <= Len(s) /\ \A i \in 1..Len(p) : p[i] = s[i]
RECURSIVE Occurs(_, _)
Occurs(p, s) == IsPrefix(p, s) \/ (s # << >> /\ Occurs(p, Tail(s)))
isPlaceholder(s) == s = NO_JPG
hasStreamMarker(s) == Occurs(STREAM_MARK, s)
hasStillExtension(s) == Occurs(JPG_MARK, s)
PassesFilter(s) == ~(isPlaceholder(s) \/ hasStreamMarker(s) \/ ~hasStillExtension(s))

\* main holds the camera that get_random_valid_camera returned
HoldsReturnedCamera ==
    pc \in {"accepted", "capture", "save_returned", "tweet", "posted", "sleeping"}

\* C1: whenever get_random_valid_camera has returned, the returned camera has
\* page content, has a stream URL, and its stream URL passes the Validity
\* Filter; a candidate lacking one of the three is never returned.
C1_ReturnedCameraIsValid ==
    HoldsReturnedCamera =>
        /\ ~IsNone(camera)
        /\ ~IsNone(Val(camera).page_content)
        /\ ~IsNone(Val(camera).stream_url)
        /\ PassesFilter(Val(Val(camera).stream_url))

C1_Witness ==
    /\ pc = "accepted"
    /\ Val(Val(camera).page_content).img = Some(<<"a">> \o JPG_MARK \o COUNTER)
    /\ Val(camera).stream_url = Some(<<"a">> \o JPG_MARK)

\* C2 (as claimed): load_cameras ends only by returning the list of a 200
\* answer, or by raising FetchCamerasError once every one of the RETRIES
\* attempts has been made and was unsuccessful.
C2_LoadEndsByListOrDiscoveryError ==
    (pc \notin {"main", "load"} /\ ended_by # "return") =>
        \/ ~IsNone(available_cameras)
        \/ pc = "exited" /\ ended_by = "FetchCamerasError" /\ attempt = RETRIES

\* C3: _save_image returns True iff one of its at most `retries` GETs answers
\* 200; it then has written the destination once, on that attempt, and makes
\* no further attempt; it returns False only after exactly `retries`
\* attempts without a 200 and without a write.
C3_SaveImageRetries ==
    /\ requests_made <= RETRIES
    /\ writes <= 1
    /\ pc = "capture" => (~got200 /\ writes = 0 /\ requests_made < RETRIES)
    /\ saved_successfully \in {"True", "False"} =>
          (saved_successfully = "True" <=> got200)
    /\ saved_successfully = "True" =>
          /\ writes = 1
          /\ requests_made >= 1
          /\ image \in ImageKinds
          /\ pc = "save_returned" => Val(image_file_path) \in disk
    /\ saved_successfully = "False" =>
          /\ writes = 0
          /\ requests_made = RETRIES

C3_Witness ==
    /\ pc = "save_returned"
    /\ RETRIES = 3
    /\ saved_successfully = "True"
    /\ requests_made = 3
    /\ writes = 1

\* C4 (as claimed): _save_image never raises, and when it returns False no
\* file exists at the destination unless one existed before the call.
C4_SaveImageNeverRaises ==
    /\ saved_successfully # "raised"
    /\ (saved_successfully = "False" /\ ~existed_before) =>
          Val(image_file_path) \notin disk

C6_FilterIsTheThreeConditions ==
    pc = "filter_returned" =>
        /\ filter_result \in {"True", "False"}
        /\ filter_result = "True" <=> PassesFilter(Val(Val(camera).stream_url))

C6_Witness ==
    /\ pc = "filter_returned"
    /\ filter_result = "False"
    /\ Val(camera).stream_url = Some(<<"a">> \o JPG_MARK \o STREAM_MARK)

\* C7 (as claimed): called on a camera whose stream URL is absent,
\* _url_is_valid returns False and raises nothing.
C7_AbsentStreamUrlGivesFalse ==
    (pc # "filter" /\ IsNone(Val(camera).stream_url)) =>
        (filter_result = "False" /\ ended_by = "none")

\* C8: once save_and_validate_image has classified a captured image, a
\* degenerate one (unreadable, or a single colour) has been deleted, failure
\* reported, and main is back at the loop head with nothing published; any
\* other one is on disk and stays there through the publish attempt.
C8_DegenerateDeletedElseRetained ==
    (saved_successfully = "True" /\ validated # "none") =>
        IF image \in {"unreadable", "solid"}
        THEN /\ validated = "False"
             /\ Val(image_file_path) \notin disk
             /\ pc = "loop"
             /\ publishes = 0
        ELSE /\ validated = "True"
             /\ Val(image_file_path) \in disk

C8_Witness ==
    /\ pc = "posted"
    /\ tweet_posted_successfully = "False"
    /\ image = "varied"
    /\ Val(image_file_path) \in disk

\* C9 (as claimed): once the sitemap has been loaded, whatever it lists,
\* no error ends the process.
C9_LoadedProcessNeverEnds ==
    ~IsNone(available_cameras) => pc # "exited"

\* C10: a publish is attempted only after the capture of this iteration
\* succeeded and its image was classified non-degenerate; after a capture
\* that exhausted its retries main is back at the loop head with no publish;
\* at most one publish is attempted per accepted camera.
C10_PublishOnlyValidatedCapture ==
    /\ publishes <= 1
    /\ (pc = "tweet" \/ publishes > 0) =>
          /\ saved_successfully = "True"
          /\ validated = "True"
          /\ image = "varied"
    /\ saved_successfully = "False" =>
          /\ pc \in {"save_returned", "loop"}
          /\ publishes = 0

C10_Witness ==
    /\ pc = "posted"
    /\ publishes = 1
    /\ saved_successfully = "True"

(***************************************************************************)
(* Camera(url) constructed on its own: every URL of the sitemap, every     *)
(* outcome of the page fetch, every combination of fields the details      *)
(* block can show, then the constructor and nothing else.                  *)
(***************************************************************************)
FieldTexts == {None, Some(DASH), Some(<<"X">>)}
CameraDetails == { << >> } \cup { <<DetailsBlock(f)>> : f \in [1..5 -> FieldTexts] }
CameraPages == [bytes : {"empty", "blank"}, img : {None}, details : {<< >>}]
                 \cup [bytes : {"html"},
                        img : {None, Some(<<"a">> \o JPG_MARK)},
                        details : CameraDetails]
CameraFetches == {None} \cup {Some(p) : p \in CameraPages}

InitCamera ==
    /\ pc = "construct"
    /\ ended_by = "none"
    /\ RETRIES = 0
    /\ available_cameras = None
    /\ attempt = 0
    /\ camera = None
    /\ image_file_path = None
    /\ disk = {}
    /\ image = "none"
    /\ existed_before = FALSE
    /\ requests_made = 0
    /\ writes = 0
    /\ got200 = FALSE
    /\ saved_successfully = "none"
    /\ validated = "none"
    /\ publishes = 0
    /\ tweeted = FALSE
    /\ tweet_posted_successfully = "none"
    /\ flag = None
    /\ tweet_status = None
    /\ filter_result = "none"

\* camera = Camera(url) (lines 35-43)
Construct ==
    /\ pc = "construct"
    /\ \E u \in URLS, f \in CameraFetches :
         IF FromstringRaises(_get_camera_page(f))
         THEN /\ camera' = None
              /\ pc' = "exited" /\ ended_by' = "ParserError"
         ELSE /\ camera' = Some(Camera(u, f))
              /\ pc' = "constructed" /\ ended_by' = ended_by
    /\ UNCHANGED <<RETRIES, available_cameras, attempt, disk, filter_result>>
    /\ IterationUnchanged

NextCamera == Construct

SpecCamera == InitCamera /\ [][NextCamera]_vars

\* C11: constructing a Camera never raises; after a transport error of the
\* page fetch the object has the id made of the URL's digits and no
\* page_content, stream_url, details or info; on a page without an <img>
\* only stream_url is absent.
C11_ConstructorNeverRaises ==
    /\ pc # "exited"
    /\ pc = "constructed" =>
         LET c == Val(camera) IN
         /\ c.id = SelectSeq(c.url, LAMBDA ch : ch \in Digits)
         /\ IsNone(c.page_content) =>
               /\ IsNone(c.stream_url)
               /\ IsNone(c.details)
               /\ IsNone(c.info)
         /\ (~IsNone(c.page_content) /\ Val(c.page_content).bytes = "html"
                /\ IsNone(Val(c.page_content).img)) =>
               /\ IsNone(c.stream_url)
               /\ ~IsNone(c.details)
               /\ ~IsNone(c.info)

\* C12: a constructed Camera has info only when its details text is
\* non-empty, and every field of info whose label does not occur in the
\* details text is the sentinel "-".
C12_InfoOnlyFromDetailsWithDashDefaults ==
    (pc = "constructed" /\ ~IsNone(Val(camera).info)) =>
        LET c == Val(camera)
            info == Val(c.info)
        IN  /\ ~IsNone(c.details)
            /\ Val(c.details) # << >>
            /\ ~Contains(Val(c.details), L_CITY) => info.city = DASH
            /\ ~Contains(Val(c.details), L_REGION) => info.region = DASH
            /\ ~Contains(Val(c.details), L_COUNTRY) => info.country = DASH
            /\ ~Contains(Val(c.details), L_COUNTRY_CODE) => info.country_code = DASH

(***************************************************************************)
(* Lines 283-284 on their own: assemble_flag_emoji and create_tweet_text   *)
(* applied to the info of a Camera constructed from a page whose details   *)
(* block shows the given country, country code, region and city.           *)
(***************************************************************************)
TweetCountries == { DASH, UNITED_STATES, CANADA, UNKNOWN, <<"C","h","i","l","e">>,
                    <<"R","u","s","s","i","a","n"," ","F","e","d","e","r","a","t","i","o","n">>, <<"K","o","r","e","a",","," ","R","e","p","u","b","l","i","c"," ","O","f">>,
                    <<"P","a","l","e","s","t","i","n","i","a","n",","," ","S","t","a","t","e"," ","O","f">> }
TweetRegions == { DASH, UNKNOWN, <<"W","a","s","h","i","n","g","t","o","n">> }
TweetCities == { DASH, UNKNOWN, <<"S","e","a","t","t","l","e">> }
CodeChars == {"U", "S", "-", "s", "1"}
TweetCodes == SeqsUpTo(CodeChars, MaxCode)
TweetPages ==
    { [bytes |-> "html", img |-> Some(<<"a">> \o JPG_MARK),
       details |-> <<DetailsBlock(<<Some(country), Some(code), Some(region),
                                    Some(city), Some(<<"1">>)>>)>>] :
        country \in TweetCountries, code \in TweetCodes,
        region \in TweetRegions, city \in TweetCities }

InitTweet ==
    /\ pc = "compose"
    /\ ended_by = "none"
    /\ RETRIES = 0
    /\ available_cameras = None
    /\ attempt = 0
    /\ camera \in {Some(Camera(<<"v","/","1">>, Some(p))) : p \in TweetPages}
    /\ image_file_path = None
    /\ disk = {}
    /\ image = "none"
    /\ existed_before = FALSE
    /\ requests_made = 0
    /\ writes = 0
    /\ got200 = FALSE
    /\ saved_successfully = "none"
    /\ validated = "none"
    /\ publishes = 0
    /\ tweeted = FALSE
    /\ tweet_posted_successfully = "none"
    /\ flag = None
    /\ tweet_status = None
    /\ filter_result = "none"

\* tweet_status = create_tweet_text(camera.info,
\*                    assemble_flag_emoji(camera.info['country_code']))
CreateTweet ==
    /\ pc = "compose"
    /\ flag' = Some(assemble_flag_emoji(Val(Val(camera).info).country_code))
    /\ tweet_status' = Some(create_tweet_text(Val(Val(camera).info), Val(flag')))
    /\ pc' = "composed"
    /\ UNCHANGED <<ended_by, RETRIES, available_cameras, attempt, camera,
                   image_file_path, disk, image, existed_before, requests_made,
                   writes, got200, saved_successfully, validated, publishes,
                   tweeted, tweet_posted_successfully, filter_result>>

NextTweet == CreateTweet

SpecTweet == InitTweet /\ [][NextTweet]_vars

EndsWith(s, suffix) ==
    /\ Len(s) >= Len(suffix)
    /\ SubSeq(s, Len(s) - Len(suffix) + 1, Len(s)) = suffix

\* C13: with "-" read as "Unknown" for city and region and the country
\* normalized, the location is "city, region" for United States,
\* "city, region, country" for Canada and "city, country" otherwise; outside
\* the two special cases the text is the location, a space and the flag.
\* Seattle / Washington / United States gives "Seattle, Washington {flag}".
C13_LocationComposition ==
    pc = "composed" =>
        LET info == Val(Val(camera).info)
            city == IF info.city = DASH THEN UNKNOWN ELSE info.city
            region == IF info.region = DASH THEN UNKNOWN ELSE info.region
            country == TweetCountry(info)
            composed ==
                CASE country = UNITED_STATES -> city \o COMMA_SP \o region
                  [] country = CANADA ->
                        city \o COMMA_SP \o region \o COMMA_SP \o CANADA
                  [] OTHER -> city \o COMMA_SP \o country
            allUnknownUS == city = UNKNOWN /\ region = UNKNOWN
                               /\ country = UNITED_STATES
        IN  /\ (~allUnknownUS /\ composed # UNKNOWN_UNKNOWN) =>
                  Val(tweet_status) = composed \o <<" ">> \o Val(flag)
            /\ (info.city = <<"S","e","a","t","t","l","e">> /\ info.region = <<"W","a","s","h","i","n","g","t","o","n">>
                   /\ info.country = UNITED_STATES) =>
                  Val(tweet_status) = <<"S","e","a","t","t","l","e",","," ","W","a","s","h","i","n","g","t","o","n"," ">> \o Val(flag)

C13_Witness ==
    /\ pc = "composed"
    /\ Val(Val(camera).info).country = CANADA
    /\ Val(Val(camera).info).city = <<"S","e","a","t","t","l","e">>
    /\ Val(Val(camera).info).region = DASH
    /\ Val(tweet_status) = <<"S","e","a","t","t","l","e",","," ","U","n","k","n","o","w","n",","," ","C","a","n","a","d","a"," ">> \o Val(flag)
    /\ Val(flag) # << >>

\* C14 as claimed: "Unknown Location" is returned only when the country is
\* the sentinel "-"; ("-", "-", "-") gives "Unknown Location"; ("-", "-",
\* "United States") gives "Unknown, United States {flag}"; every input whose
\* country is not "-" gives a text ending with the flag.
C14_UnknownLocationOnlyForDashCountry ==
    pc = "composed" =>
        LET info == Val(Val(camera).info) IN
        /\ Val(tweet_status) = UNKNOWN_LOCATION => info.country = DASH
        /\ (info.city = DASH /\ info.region = DASH /\ info.country = DASH) =>
              Val(tweet_status) = UNKNOWN_LOCATION
        /\ (info.city = DASH /\ info.region = DASH
               /\ info.country = UNITED_STATES) =>
              Val(tweet_status) = UNKNOWN_UNITED_STATES_SP \o Val(flag)
        /\ info.country # DASH => EndsWith(Val(tweet_status), Val(flag))

\* C14 amended: "Unknown Location" is returned only when the normalized
\* country is "Unknown" (the sentinel "-" or a country text that normalizes
\* to the word "Unknown") and the city is unknown too; the two examples
\* hold; every input whose normalized country is not "Unknown" gives a text
\* ending with the flag.
C14_UnknownLocationOnlyForUnknownCountry ==
    pc = "composed" =>
        LET info == Val(Val(camera).info) IN
        /\ Val(tweet_status) = UNKNOWN_LOCATION =>
              /\ TweetCountry(info) = UNKNOWN
              /\ info.city \in {DASH, UNKNOWN}
        /\ (info.city = DASH /\ info.region = DASH /\ info.country = DASH) =>
              Val(tweet_status) = UNKNOWN_LOCATION
        /\ (info.city = DASH /\ info.region = DASH
               /\ info.country = UNITED_STATES) =>
              Val(tweet_status) = UNKNOWN_UNITED_STATES_SP \o Val(flag)
        /\ TweetCountry(info) # UNKNOWN => EndsWith(Val(tweet_status), Val(flag))

C14_Witness ==
    /\ pc = "composed"
    /\ Val(Val(camera).info).country = UNKNOWN
    /\ Val(Val(camera).info).city = DASH
    /\ Val(Val(camera).info).country_code = <<"U","S">>
    /\ Val(tweet_status) = UNKNOWN_LOCATION

\* C15: the flag has one element per character of the country code, in
\* order: the glyph of the letter for A..Z, the character itself otherwise;
\* "US" gives the glyphs of U and S, "-" gives "-", "" gives "".
UpperCase == {"A","B","C","D","E","F","G","H","I","J","K","L","M",
              "N","O","P","Q","R","S","T","U","V","W","X","Y","Z"}
C15_FlagIsCharacterwise ==
    pc = "composed" =>
        LET code == Val(Val(camera).info).country_code
            out == Val(flag)
        IN  /\ Len(out) = Len(code)
            /\ \A i \in 1..Len(code) :
                  IF code[i] \in UpperCase
                  THEN out[i] = symbols[code[i]] /\ out[i] \notin UpperCase
                  ELSE out[i] = code[i]
            /\ code = <<"U","S">> => out = <<"RI_U", "RI_S">>
            /\ code = DASH => out = DASH
            /\ code = << >> => out = << >>

C15_Witness ==
    /\ pc = "composed"
    /\ Val(Val(camera).info).country_code = <<"U", "s">>
    /\ Val(flag) = <<"RI_U", "s">>

\* a candidate the Selection Loop must reject: page content absent, stream
\* URL absent, or stream URL refused by the Validity Filter
IsRejectedCandidate(c) ==
    \/ IsNone(c.page_content) \/ Val(c.page_content).bytes = "empty"
    \/ IsNone(c.stream_url) \/ Val(c.stream_url) = << >>
    \/ ~PassesFilter(Val(c.stream_url))

\* C16: a draw that yields a rejected candidate leaves get_random_valid_camera
\* sampling: it does not return, does not raise, and nothing is captured,
\* written or published; and while sampling from a non-empty pool another
\* draw is always possible (no cap on the attempts), so if every draw is
\* rejected the process samples forever.
C16_RejectedDrawKeepsSampling ==
    /\ [][(pc = "sampling" /\ ~IsNone(camera') /\ IsRejectedCandidate(Val(camera')))
            => /\ pc' = "sampling"
               /\ ended_by' = "none"
               /\ UNCHANGED <<available_cameras, attempt, disk, image_file_path,
                              requests_made, writes, publishes, tweeted>>]_vars
    /\ [](( /\ pc = "sampling"
            /\ ~IsNone(available_cameras)
            /\ Val(available_cameras) # << >>) => ENABLED GetRandomValidCamera)

C16_Witness ==
    /\ pc = "sampling"
    /\ ~IsNone(camera)
    /\ IsRejectedCandidate(Val(camera))
    /\ ~IsNone(Val(camera).page_content)
    /\ disk # {}

\* C17: the sitemap is loaded once per run: once main has the pool, no step
\* (draw, rejection, acceptance, capture, publish, sleep) changes it and the
\* loader is not entered again; every URL drawn is a member of the pool; and
\* draws are with replacement: at every draw each member of the pool can be
\* the one drawn, whatever was drawn before.
C17_PoolLoadedOnceAndNeverChanged ==
    /\ [][~IsNone(available_cameras) => available_cameras' = available_cameras]_vars
    /\ [][pc' = "load" => pc \in {"main", "load"}]_vars
    /\ []((~IsNone(camera) /\ ~IsNone(available_cameras)) =>
            \E i \in 1..Len(Val(available_cameras)) :
                Val(available_cameras)[i] = Val(camera).url)
    /\ []((pc = "sampling" /\ ~IsNone(available_cameras)) =>
            \A i \in 1..Len(Val(available_cameras)) :
                ENABLED ( /\ GetRandomValidCamera
                          /\ ~IsNone(camera')
                          /\ Val(camera').url = Val(available_cameras)[i] ))

C17_Witness ==
    /\ pc = "sampling"
    /\ ~IsNone(available_cameras)
    /\ Len(Val(available_cameras)) = MaxPool
    /\ Val(available_cameras)[1] # Val(available_cameras)[MaxPool]
    /\ ~IsNone(camera)
    /\ Val(camera).url = Val(available_cameras)[MaxPool]
    /\ disk # {}

\* C18: every camera returned by get_random_valid_camera has info (a
\* dictionary), so for a camera whose image was captured and validated the
\* country-code lookup and create_tweet_text of lines 283-284 do not fail:
\* the flag and the text are built and post_to_twitter is reached.
C18_AcceptedCameraHasInfo ==
    /\ HoldsReturnedCamera =>
          /\ ~IsNone(camera)
          /\ ~IsNone(Val(camera).info)
    /\ pc = "posted" => (~IsNone(flag) /\ ~IsNone(tweet_status))
    /\ ~(pc = "exited" /\ ended_by = "TypeError" /\ validated = "True")

C18_Witness ==
    /\ pc = "posted"
    /\ validated = "True"
    /\ Val(Val(camera).info).country_code = <<"U","S">>
    /\ Val(tweet_status) = <<"S","e","a","t","t","l","e",","," ","W","a","s","h","i","n","g","t","o","n"," ">> \o <<"RI_U", "RI_S">>

(***************************************************************************)
(* The process with one pool member that resolves to a valid candidate     *)
(* every time it is drawn, under fair drawing: main keeps running (weak    *)
(* fairness of the next-state relation: one thread, no blocking call in    *)
(* the model) and random.choice does not avoid that member for ever (weak  *)
(* fairness of the returning draw, which stays enabled while sampling).    *)
(***************************************************************************)
GoodUrl == <<"v","/","1">>
GoodFetches ==
    { f \in PageFetches :
        /\ ~FromstringRaises(_get_camera_page(f))
        /\ Verdict(Camera(GoodUrl, f)) = "accepted" }
FetchesWithGoodUrl ==
    [url \in URLS |-> IF url = GoodUrl THEN GoodFetches ELSE PageFetches]

\* get_random_valid_camera (lines 174-181) when the page fetch of GoodUrl
\* always brings a page that makes a valid candidate
GetRandomValidCameraWithGoodUrl ==
    /\ pc = "sampling"
    /\ IF IsNone(available_cameras)
       THEN \* random.choice(None)
            /\ pc' = "exited" /\ ended_by' = "TypeError"
            /\ UNCHANGED camera
       ELSE IF Val(available_cameras) = << >>
       THEN \* random.choice([])
            /\ pc' = "exited" /\ ended_by' = "IndexError"
            /\ UNCHANGED camera
       ELSE \E i \in 1..Len(Val(available_cameras)) :
            \E f \in FetchesWithGoodUrl[Val(available_cameras)[i]] :
            IF FromstringRaises(_get_camera_page(f))
            THEN \* Camera.__init__ raises; no Camera is bound, the frame is gone
                 /\ camera' = None
                 /\ pc' = "exited" /\ ended_by' = "ParserError"
            ELSE
            LET c == Constructed[Val(available_cameras)[i], f] IN
            /\ camera' = Some(c)
            /\ CASE Verdict(c) = "accepted" -> pc' = "accepted" /\ ended_by' = ended_by
                 [] Verdict(c) = "rejected" -> pc' = "sampling" /\ ended_by' = ended_by
                 [] OTHER -> pc' = "exited" /\ ended_by' = "TypeError"
    /\ IterationUnchanged
    /\ UNCHANGED <<RETRIES, available_cameras, attempt, disk, filter_result>>

GoodUrlInPool ==
    /\ ~IsNone(available_cameras)
    /\ \E i \in 1..Len(Val(available_cameras)) : Val(available_cameras)[i] = GoodUrl

\* a draw that returns while GoodUrl is in the pool: every draw of GoodUrl
\* is one, so it is enabled in every sampling state and fair drawing cannot
\* avoid it for ever
ReturnWithGoodUrl ==
    /\ GoodUrlInPool
    /\ GetRandomValidCameraWithGoodUrl
    /\ pc' = "accepted"

NextFair ==
    \/ MakeDirs
    \/ LoadCameras
    \/ MainLoop
    \/ GetRandomValidCameraWithGoodUrl
    \/ SaveBegin
    \/ SaveAttempt
    \/ SaveAndValidate
    \/ PostToTwitter
    \/ PostReturned
    \/ Sleep

SpecFair ==
    /\ Init
    /\ [][NextFair]_vars
    /\ WF_vars(NextFair)
    /\ WF_vars(ReturnWithGoodUrl)

\* C19 (its first part): when the pool holds a URL that resolves to a valid
\* candidate at every draw, then under fair drawing every invocation of
\* get_random_valid_camera eventually returns a camera.
C19_SamplingEventuallyReturns ==
    (pc = "sampling" /\ GoodUrlInPool) ~> (pc = "accepted")

====
